---- MODULE Spec2Model ----
(***************************************************************************)
(* GreenMove EV fleet charging optimizer: main.py, optimizer.py, models.py *)
(*                                                                         *)
(* Two threads share the module-level fleet_data:                          *)
(*   - the BackgroundScheduler worker thread, which runs scheduled_job     *)
(*     (simulate_ev_movement, then the hand-over of broadcast_fleet);      *)
(*   - the server's event loop thread, which runs the request handlers     *)
(*     (assign_charging_endpoint, get_nearby_stations, websocket_endpoint) *)
(*     one at a time, none of them awaiting before it returns.             *)
(* No lock guards fleet_data, so the two threads interleave between        *)
(* source statements.  One step of the model is one source statement (or a *)
(* run of statements that touch only the executing handler's locals); a    *)
(* blocking call to real_distance is a step of its own.                    *)
(*                                                                         *)
(* Spec runs the timer's thread beside assignment requests, SpecQuery       *)
(* beside nearby-stations queries, SpecStatus beside status queries,       *)
(* SpecResolve beside single calls of real_distance,                       *)
(* SpecPush beside the observers'                                          *)
(* registrations; SpecBroadcast runs ConnectionManager.broadcast over the  *)
(* registry, and SpecLive runs both beside a fair timer.                   *)
(*                                                                         *)
(* Units: coordinates are micro-degrees relative to a local origin,        *)
(* distances are millimetres, so that round(d, 2) (to the centimetre) is   *)
(* not the identity.                                                       *)
(***************************************************************************)
EXTENDS Integers, Sequences, FiniteSets, TLC

\* ------------------------------------------------------------------ bounds
NumEVs == 3
NumStations == 2
MaxCap == 2
MaxTicks == 1
MaxObservers == 3

\* ------------------------------------------------------- program constants
MaxDrain == 2
FullBattery == 100
MetersPerDeg == 111320
CosMilli == 758

EVs == 1..NumEVs
Stations == 1..NumStations
Observers == 1..MaxObservers
None == 0

\* EV.id / Station.id: the identifier of the i-th element of the fleet lists.
\* UnknownId is an identifier no vehicle carries.
EvId(e) == e
StationId(s) == s
UnknownId == NumEVs + 1
\* The identifiers in fleet_data.stations.
StationIds == {StationId(s) : s \in Stations}
QueryIds == 1..UnknownId

\* fleet_data as constructed, scaled down: batteries a few units above empty,
\* so that a bounded number of ticks reaches the depletion rule.
InitBattery == [e \in EVs |-> IF e = 1 THEN 2 ELSE 1]
InitLat == [e \in EVs |-> e]
InitLon == [e \in EVs |-> 0]
StationLat == [s \in Stations |-> 4 * (s - 1)]
StationLon == [s \in Stations |-> 3 * (2 - s)]

\* random.uniform(-0.0005, 0.0005): the draws the model enumerates.
Drift == {1}
\* random.randint(0, 2)
Drain == 0..MaxDrain

\* Outcomes of one remote tier: a route distance, or one of the failures that
\* requests.get / raise_for_status / r.json() / the indexing raise.
RemoteDist == {300}
FailKinds == {"timeout", "http_error", "malformed"}
Outcomes == [kind : {"ok"}, dist : RemoteDist] \cup [kind : FailKinds, dist : {0}]

VARIABLES
    battery, lat, lon, assigned_station,   \* EV fields, per vehicle
    capacity, occupied,                    \* Station fields, per station
    orsKey,                                \* ORS_API_KEY is set
    tpc, ti, ticks, depleted,              \* scheduler thread: position in scheduled_job
    completed,                             \* the vehicles as each completed tick left them
    threadLoop, pending,                   \* event loops and the tasks handed to them
    lpc, run, nq, sq,                      \* event loop thread: the handler in progress
    rd,                                    \* the real_distance call made last
    active_connections,                    \* ConnectionManager
    bpc, bsnap, bi,                        \* ConnectionManager.broadcast in progress
    inbox, failed, joined                  \* what that broadcast did, per observer

fleetVars == <<battery, lat, lon, assigned_station, capacity, occupied, orsKey>>
tickVars == <<tpc, ti, ticks, depleted, completed, threadLoop, pending>>
loopVars == <<lpc, run, nq, sq, rd>>
connVars == <<active_connections, bpc, bsnap, bi, inbox, failed, joined>>
vars == <<fleetVars, tickVars, loopVars, connVars>>

\* ---------------------------------------------------------------- helpers
Abs(x) == IF x < 0 THEN -x ELSE x
Max(a, b) == IF a > b THEN a ELSE b
Min(a, b) == IF a < b THEN a ELSE b

RECURSIVE SqrtSearch(_, _, _)
SqrtSearch(n, lo, hi) ==
    IF lo >= hi THEN lo
    ELSE LET mid == (lo + hi + 1) \div 2
         IN IF mid * mid <= n THEN SqrtSearch(n, mid, hi)
            ELSE SqrtSearch(n, lo, mid - 1)

\* math.sqrt, to the millimetre below
ISqrt(n) == SqrtSearch(n, 0, Min(n, 46340))

\* round(d, 2) of a distance in metres: to the nearest 10 mm, ties to even
Round2(d) ==
    LET q == d \div 10
        r == d % 10
    IN IF r < 5 THEN 10 * q
       ELSE IF r > 5 THEN 10 * (q + 1)
       ELSE IF q % 2 = 0 THEN 10 * q ELSE 10 * (q + 1)

\* ------------------------------------------------ optimizer.real_distance
\* Lines 43-45: the flat-earth approximation from the current coordinates.
FlatEarth(e, s) ==
    LET lat_diff_m == (Abs(lat[e] - StationLat[s]) * MetersPerDeg) \div 1000
        lon_diff_m == (Abs(lon[e] - StationLon[s]) * MetersPerDeg * CosMilli) \div 1000000
    IN ISqrt(lat_diff_m * lat_diff_m + lon_diff_m * lon_diff_m)

\* The mutant of RealDistance: an absent credential raises (os.environ[...]).
RealDistanceKeyRequired(e, s, o1, o2) ==
    IF o1.kind = "ok"
    THEN [raised |-> FALSE, dist |-> o1.dist, tiers |-> <<"osrm">>]
    ELSE IF ~orsKey
    THEN [raised |-> TRUE, dist |-> 0, tiers |-> <<"osrm">>]
    ELSE IF o2.kind = "ok"
    THEN [raised |-> FALSE, dist |-> o2.dist, tiers |-> <<"osrm", "ors">>]
    ELSE [raised |-> FALSE, dist |-> FlatEarth(e, s), tiers |-> <<"osrm", "ors", "flat">>]

\* A mutant of RealDistance: the secondary provider is asked whether or not
\* the credential is set.
RealDistanceNoKeyCheck(e, s, o1, o2) ==
    IF o1.kind = "ok"
    THEN [raised |-> FALSE, dist |-> o1.dist, tiers |-> <<"osrm">>]
    ELSE IF o2.kind = "ok"
    THEN [raised |-> FALSE, dist |-> o2.dist, tiers |-> <<"osrm", "ors">>]
    ELSE [raised |-> FALSE, dist |-> FlatEarth(e, s), tiers |-> <<"osrm", "ors", "flat">>]

\* real_distance(ev, station) when the primary provider answers o1 and the
\* secondary (if asked) o2: the value returned, whether an exception leaves
\* the function, and the tiers tried, in order.
RealDistance(e, s, o1, o2) ==
    IF o1.kind = "ok"
    THEN [raised |-> FALSE, dist |-> o1.dist, tiers |-> <<"osrm">>]
    ELSE IF orsKey /\ o2.kind = "ok"
    THEN [raised |-> FALSE, dist |-> o2.dist, tiers |-> <<"osrm", "ors">>]
    ELSE [raised |-> FALSE, dist |-> FlatEarth(e, s),
          tiers |-> IF orsKey THEN <<"osrm", "ors", "flat">> ELSE <<"osrm", "flat">>]

\* What one call real_distance(ev, station) can return in the current state,
\* over every outcome of the two remote tiers.
Distances(e, s) == {RealDistance(e, s, o1, o2).dist : o1 \in Outcomes, o2 \in Outcomes}

\* One call: the arguments, what the providers answer (o2: what the
\* secondary answers if it is asked) and what real_distance does with it.
NoCall == [ev |-> None, station |-> None,
           o1 |-> [kind |-> "", dist |-> 0], o2 |-> [kind |-> "", dist |-> 0],
           r |-> [raised |-> FALSE, dist |-> 0, tiers |-> <<>>]]
Calls(e, s) == {[ev |-> e, station |-> s, o1 |-> o1, o2 |-> o2,
                 r |-> RealDistance(e, s, o1, o2)] : o1 \in Outcomes, o2 \in Outcomes}

\* --------------------------------------------------------------- initial
IdleRun == [evs_sorted |-> <<>>, i |-> 0, j |-> 0, dists |-> <<>>,
            best_station |-> None, best_dist |-> 0, assignments |-> <<>>]
IdleQuery == [id |-> None, ev |-> None, j |-> 0, calls |-> 0, keys |-> <<>>,
              stations_sorted |-> <<>>, battery |-> 0, result |-> <<>>, error |-> ""]

IdleStatus == [i |-> 0, evs |-> <<>>, stations |-> <<>>]

InitFleet ==
    /\ battery = InitBattery
    /\ lat = InitLat
    /\ lon = InitLon
    /\ assigned_station = [e \in EVs |-> None]
    /\ occupied = [s \in Stations |-> 0]


InitTick ==
    /\ tpc = "idle"
    /\ ti = 0
    /\ ticks = 0
    /\ depleted = {}
    /\ completed = <<[battery |-> InitBattery, lat |-> InitLat, lon |-> InitLon]>>
    /\ threadLoop = FALSE
    /\ pending = [l \in {"server", "worker"} |-> 0]

InitLoop ==
    /\ lpc = "idle"
    /\ run = IdleRun
    /\ nq = IdleQuery
    /\ sq = IdleStatus
    /\ rd = NoCall

InitConn ==
    /\ active_connections = <<>>
    /\ bpc = "idle"
    /\ bsnap = <<>>
    /\ bi = 0
    /\ inbox = [o \in Observers |-> 0]
    /\ failed = {}
    /\ joined = {}

\* Fleets of every capacity; ORS_API_KEY is absent by default.
Init ==
    /\ InitFleet /\ InitTick /\ InitLoop /\ InitConn
    /\ capacity \in [Stations -> 1..MaxCap]
    /\ orsKey = FALSE

\* One fleet, with ORS_API_KEY set or not.
InitQuery ==
    /\ InitFleet /\ InitTick /\ InitLoop /\ InitConn
    /\ capacity = [s \in Stations |-> 1]
    /\ orsKey \in BOOLEAN

\* ------------------------------------------- main.simulate_ev_movement
\* The interval trigger fires scheduled_job on the scheduler's worker thread
\* (one instance at a time).
TickStart ==
    /\ tpc = "idle"
    /\ ticks < MaxTicks
    /\ tpc' = "move"
    /\ ti' = 1
    /\ ticks' = ticks + 1
    /\ depleted' = {}
    /\ UNCHANGED <<completed, threadLoop, pending, fleetVars, loopVars, connVars>>

\* Where the loop of line 39 goes after the vehicle at ti.
NextVehicle ==
    IF ti < NumEVs
    THEN tpc' = "move" /\ ti' = ti + 1 /\ UNCHANGED completed
    ELSE /\ tpc' = "handover" /\ ti' = 0
         /\ completed' = Append(completed, [battery |-> battery, lat |-> lat, lon |-> lon])

\* Lines 40-41
TickMove ==
    /\ tpc = "move"
    /\ \E dlat \in Drift, dlon \in Drift :
         /\ lat' = [lat EXCEPT ![ti] = @ + dlat]
         /\ lon' = [lon EXCEPT ![ti] = @ + dlon]
    /\ tpc' = "drain"
    /\ UNCHANGED <<battery, assigned_station, capacity, occupied, orsKey>>
    /\ UNCHANGED <<ti, ticks, depleted, completed, threadLoop, pending, loopVars, connVars>>

\* Line 42: max(0, ev.battery - random.randint(0, 2))
Drained(b, d) == Max(0, b - d)

TickDrain ==
    /\ tpc = "drain"
    /\ \E d \in Drain : battery' = [battery EXCEPT ![ti] = Drained(@, d)]
    /\ tpc' = "reset"
    /\ UNCHANGED <<lat, lon, assigned_station, capacity, occupied, orsKey>>
    /\ UNCHANGED <<ti, ticks, depleted, completed, threadLoop, pending, loopVars, connVars>>

\* Lines 45-46: if ev.battery == 0: ev.battery = 100
TickReset ==
    /\ tpc = "reset"
    /\ IF battery[ti] = 0
       THEN /\ battery' = [battery EXCEPT ![ti] = FullBattery]
            /\ depleted' = depleted \cup {ti}
            /\ tpc' = "clear"
            /\ ti' = ti
            /\ UNCHANGED completed
       ELSE /\ NextVehicle
            /\ UNCHANGED <<battery, depleted>>
    /\ UNCHANGED <<lat, lon, assigned_station, capacity, occupied, orsKey>>
    /\ UNCHANGED <<ticks, threadLoop, pending, loopVars, connVars>>

\* A mutant of TickClear: the charger the vehicle held is released.
TickClearReleasing ==
    /\ tpc = "clear"
    /\ assigned_station' = [assigned_station EXCEPT ![ti] = None]
    /\ occupied' = [s \in Stations |->
                       IF assigned_station[ti] = StationId(s) /\ occupied[s] > 0
                       THEN occupied[s] - 1 ELSE occupied[s]]
    /\ NextVehicle
    /\ UNCHANGED <<battery, lat, lon, capacity, orsKey>>
    /\ UNCHANGED <<ticks, depleted, threadLoop, pending, loopVars, connVars>>

\* The mutant of TickClear: the assignment is overwritten with a marker that is
\* neither None nor a station.
TickClearSentinel ==
    /\ tpc = "clear"
    /\ assigned_station' = [assigned_station EXCEPT ![ti] = -1]
    /\ NextVehicle
    /\ UNCHANGED <<battery, lat, lon, capacity, occupied, orsKey>>
    /\ UNCHANGED <<ticks, depleted, threadLoop, pending, loopVars, connVars>>

\* Line 47: ev.assigned_station = None
TickClear ==
    /\ tpc = "clear"
    /\ assigned_station' = [assigned_station EXCEPT ![ti] = None]
    /\ NextVehicle
    /\ UNCHANGED <<battery, lat, lon, capacity, occupied, orsKey>>
    /\ UNCHANGED <<ticks, depleted, threadLoop, pending, loopVars, connVars>>

\* ----------------------------------------------------- main.scheduled_job
\* The loop the server runs the handlers and the observers' sends on, and
\* the loop that belongs to the scheduler's worker thread.
ServerLoop == "server"
WorkerLoop == "worker"
Loops == {ServerLoop, WorkerLoop}

\* Line 92: asyncio.get_event_loop() on the worker thread.  The thread is not
\* the main thread and runs no loop, so the call raises RuntimeError (NoLoop)
\* until a loop has been set for the thread (threadLoop).
NoLoop == "none"
GetEventLoop == IF threadLoop THEN WorkerLoop ELSE NoLoop

\* Lines 91-95: on RuntimeError a new loop is created and set for the worker
\* thread.  Nothing ever runs it.
TargetLoop == IF GetEventLoop = NoLoop THEN WorkerLoop ELSE GetEventLoop

\* The mutant of Handover: no except branch, the RuntimeError of line 92 ends
\* the timer's thread.
HandoverNoFallback ==
    /\ tpc = "handover"
    /\ GetEventLoop # NoLoop
    /\ threadLoop' = TRUE
    /\ pending' = [pending EXCEPT ![GetEventLoop] = @ + 1]
    /\ tpc' = "idle"
    /\ UNCHANGED <<ti, ticks, depleted, completed, fleetVars, loopVars, connVars>>

\* Lines 91-96: run_coroutine_threadsafe(broadcast_fleet(), loop) queues the
\* coroutine on that loop.
Handover ==
    /\ tpc = "handover"
    /\ threadLoop' = TRUE
    /\ pending' = [pending EXCEPT ![TargetLoop] = @ + 1]
    /\ tpc' = "idle"
    /\ UNCHANGED <<ti, ticks, depleted, completed, fleetVars, loopVars, connVars>>

\* --------------------------------------------- optimizer.assign_charging
\* float("inf"), line 65
Inf == 2147483647

\* sorted(): a stable insertion of e into a sequence ordered by key.
RECURSIVE InsertByKey(_, _, _)
InsertByKey(seq, e, key) ==
    IF seq = <<>> THEN <<e>>
    ELSE IF key[e] < key[Head(seq)] THEN <<e>> \o seq
    ELSE <<Head(seq)>> \o InsertByKey(Tail(seq), e, key)

RECURSIVE SortPrefix(_, _)
SortPrefix(n, key) ==
    IF n = 0 THEN <<>> ELSE InsertByKey(SortPrefix(n - 1, key), n, key)

\* The mutant of SortedByBattery: high battery first.
SortedByBatteryDescending(key) == SortPrefix(NumEVs, [e \in EVs |-> -key[e]])

\* Line 61: sorted(evs, key=lambda e: e.battery), as indices into evs.
SortedByBattery(key) == SortPrefix(NumEVs, key)

\* A mutant of Closer: an equal distance replaces the best so far.
CloserOrEqual(d, best) == d <= best

\* The mutant of Closer: the comparison turned round.
Farther(d, best) == d > best

\* Line 69: d < best_dist
Closer(d, best) == d < best

\* The mutant of HasCapacity: off by one.
HasCapacityInclusive(s) == occupied[s] <= capacity[s]

\* Line 67: station.occupied < station.capacity
HasCapacity(s) == occupied[s] < capacity[s]

\* The mutant of LoopIdle: handlers are started while another is in progress
\* (as for handlers run on a pool of threads).
LoopAlwaysFree == TRUE

\* The handlers are coroutines (async def, lines 106, 113, 124) that await
\* nothing before they return: the one event loop thread takes up a request
\* only when the handler before it has returned.
LoopIdle == lpc = "idle"

\* In run.dists, the entry of a station the scan passed over as full.
NoDist == -1

\* POST /assign-charging is taken up by the event loop.
AssignStart ==
    /\ LoopIdle
    /\ lpc' = "reset"
    /\ run' = [IdleRun EXCEPT !.j = 1]
    /\ UNCHANGED <<nq, sq, rd, fleetVars, tickVars, connVars>>

\* main.py lines 118-119: s.occupied = 0, one station per step.
AssignReset ==
    /\ lpc = "reset"
    /\ occupied' = [occupied EXCEPT ![run.j] = 0]
    /\ IF run.j < NumStations
       THEN run' = [run EXCEPT !.j = @ + 1] /\ lpc' = lpc
       ELSE run' = [run EXCEPT !.j = 0] /\ lpc' = "sort"
    /\ UNCHANGED <<battery, lat, lon, assigned_station, capacity, orsKey>>
    /\ UNCHANGED <<nq, sq, rd, tickVars, connVars>>

\* optimizer.py lines 54-61.  Station.occupied is a declared field, so the
\* hasattr loop of lines 57-59 changes nothing.
AssignSort ==
    /\ lpc = "sort"
    /\ run' = [run EXCEPT !.evs_sorted = SortedByBattery(battery), !.i = 1, !.j = 1,
                          !.dists = <<>>, !.best_station = None, !.best_dist = Inf]
    /\ lpc' = "scan"
    /\ UNCHANGED <<nq, sq, rd, fleetVars, tickVars, connVars>>

\* Lines 66-71 for the station at run.j: the vehicle is run.evs_sorted[run.i].
\* run.dists keeps the d of line 68 of every station of this vehicle's scan.
AssignScan ==
    /\ lpc = "scan"
    /\ LET ev == run.evs_sorted[run.i]
           after(d) == IF Closer(d, run.best_dist)
                       THEN [run EXCEPT !.dists = Append(@, d),
                                        !.best_dist = d, !.best_station = run.j]
                       ELSE [run EXCEPT !.dists = Append(@, d)]
           advance(r) == IF r.j < NumStations THEN [r EXCEPT !.j = @ + 1]
                         ELSE [r EXCEPT !.j = 0]
       IN /\ IF HasCapacity(run.j)
             THEN \E d \in Distances(ev, run.j) : run' = advance(after(d))
             ELSE run' = advance([run EXCEPT !.dists = Append(@, NoDist)])
          /\ lpc' = IF run.j < NumStations THEN "scan" ELSE "choose"
    /\ UNCHANGED <<nq, sq, rd, fleetVars, tickVars, connVars>>

\* Where the loop of line 63 goes after the vehicle at run.i.
AfterVehicle(r) ==
    [r EXCEPT !.i = @ + 1, !.j = IF r.i < NumEVs THEN 1 ELSE 0,
              !.dists = <<>>, !.best_station = None, !.best_dist = Inf]

\* Lines 73-80, a station was found.
AssignTake ==
    /\ lpc = "choose"
    /\ run.best_station # None
    /\ LET ev == run.evs_sorted[run.i]
       IN /\ assigned_station' = [assigned_station EXCEPT ![ev] = StationId(run.best_station)]
          /\ occupied' = [occupied EXCEPT ![run.best_station] = @ + 1]
          /\ run' = AfterVehicle([run EXCEPT !.assignments =
                         Append(@, [ev |-> EvId(ev), station |-> StationId(run.best_station),
                                    distance_m |-> Round2(run.best_dist)])])
    /\ lpc' = IF run.i < NumEVs THEN "scan" ELSE "return"
    /\ UNCHANGED <<battery, lat, lon, capacity, orsKey>>
    /\ UNCHANGED <<nq, sq, rd, tickVars, connVars>>

\* The mutant of AssignSkip: a vehicle that finds no station loses its
\* assignment.
AssignSkipClearing ==
    /\ lpc = "choose"
    /\ run.best_station = None
    /\ assigned_station' = [assigned_station EXCEPT ![run.evs_sorted[run.i]] = None]
    /\ run' = AfterVehicle(run)
    /\ lpc' = IF run.i < NumEVs THEN "scan" ELSE "return"
    /\ UNCHANGED <<battery, lat, lon, capacity, occupied, orsKey>>
    /\ UNCHANGED <<nq, sq, rd, tickVars, connVars>>

\* Line 73 with best_station None: the vehicle is passed over.
AssignSkip ==
    /\ lpc = "choose"
    /\ run.best_station = None
    /\ run' = AfterVehicle(run)
    /\ lpc' = IF run.i < NumEVs THEN "scan" ELSE "return"
    /\ UNCHANGED <<nq, sq, rd, fleetVars, tickVars, connVars>>

\* optimizer.py line 81 and main.py line 121: the records are returned and
\* the handler's locals are gone.
AssignReturn ==
    /\ lpc = "return"
    /\ lpc' = "idle"
    /\ run' = IdleRun
    /\ UNCHANGED <<nq, sq, rd, fleetVars, tickVars, connVars>>

Assign == AssignStart \/ AssignReset \/ AssignSort \/ AssignScan \/ AssignTake
          \/ AssignSkip \/ AssignReturn

\* ------------------------------------------------ main.get_nearby_stations
\* The mutant of Lookup: an unknown identifier falls back to the first vehicle.
LookupOrFirst(id) ==
    IF \E e \in EVs : EvId(e) = id
    THEN CHOOSE e \in EVs : EvId(e) = id /\ \A f \in EVs : EvId(f) = id => e <= f
    ELSE 1

\* Line 128: next((e for e in fleet_data.evs if e.id == ev_id), None)
Lookup(id) ==
    IF \E e \in EVs : EvId(e) = id
    THEN CHOOSE e \in EVs : EvId(e) = id /\ \A f \in EVs : EvId(f) = id => e <= f
    ELSE None

\* sorted(fleet_data.stations, key=...): stations by the keys computed for
\* them, equal keys in station order.
RECURSIVE SortStations(_, _)
SortStations(n, key) ==
    IF n = 0 THEN <<>> ELSE InsertByKey(SortStations(n - 1, key), n, key)

\* Lines 128-130: GET /nearby-stations/{ev_id} is taken up by the event loop.
NearbyLookup ==
    /\ LoopIdle
    /\ \E id \in QueryIds :
         IF Lookup(id) = None
         THEN /\ nq' = [IdleQuery EXCEPT !.id = id, !.error = "EV not found"]
              /\ lpc' = "nreturn"
         ELSE /\ nq' = [IdleQuery EXCEPT !.id = id, !.ev = Lookup(id), !.j = 1]
              /\ lpc' = "nkeys"
    /\ UNCHANGED <<run, sq, rd, fleetVars, tickVars, connVars>>

\* Line 131: the key of the station at nq.j, one real_distance call; after
\* the last key the stations are sorted and line 134 reads ev.battery.
NearbyKey ==
    /\ lpc = "nkeys"
    /\ \E d \in Distances(nq.ev, nq.j) :
         LET keys == Append(nq.keys, d)
         IN IF nq.j < NumStations
            THEN /\ nq' = [nq EXCEPT !.keys = keys, !.calls = @ + 1, !.j = @ + 1]
                 /\ lpc' = lpc
            ELSE /\ nq' = [nq EXCEPT !.keys = keys, !.calls = @ + 1, !.j = 1,
                                     !.stations_sorted = SortStations(NumStations, keys),
                                     !.battery = battery[nq.ev]]
                 /\ lpc' = "nreport"
    /\ UNCHANGED <<run, sq, rd, fleetVars, tickVars, connVars>>

\* Lines 135-138: the entry of the station at place nq.j of the sorted list,
\* with a real_distance call of its own.
NearbyReport ==
    /\ lpc = "nreport"
    /\ LET s == nq.stations_sorted[nq.j]
       IN \E d \in Distances(nq.ev, s) :
            nq' = [nq EXCEPT !.calls = @ + 1, !.j = @ + 1,
                             !.result = Append(@, [station |-> StationId(s),
                                                   distance_m |-> Round2(d)])]
    /\ lpc' = IF nq.j < NumStations THEN lpc ELSE "nreturn"
    /\ UNCHANGED <<run, sq, rd, fleetVars, tickVars, connVars>>

\* Lines 130 and 132-139: the response is returned.
NearbyReturn ==
    /\ lpc = "nreturn"
    /\ lpc' = "idle"
    /\ nq' = IdleQuery
    /\ UNCHANGED <<run, sq, rd, fleetVars, tickVars, connVars>>

Nearby == NearbyLookup \/ NearbyKey \/ NearbyReport \/ NearbyReturn

\* real_distance(ev, station) is called on the event loop's thread (line 68
\* of optimizer.py, lines 131 and 136 of main.py) and runs to its return.
Resolve ==
    /\ LoopIdle
    /\ \E e \in EVs, s \in Stations : rd' \in Calls(e, s)
    /\ UNCHANGED <<lpc, run, nq, sq, fleetVars, tickVars, connVars>>

\* --------------------------------------------------- main.get_fleet_status
\* ev.dict() / s.dict(): the fields of one record as the serializer reads them.
EvDict(e) == [id |-> EvId(e), lat |-> lat[e], lon |-> lon[e], battery |-> battery[e],
              assigned_station |-> assigned_station[e]]
StationDict(s) == [id |-> StationId(s), capacity |-> capacity[s], occupied |-> occupied[s]]

\* Line 110: GET /fleet-status is taken up by the event loop and returns
\* fleet_data itself; the response is serialized from the live objects.
StatusStart ==
    /\ LoopIdle
    /\ lpc' = "sevs"
    /\ sq' = [IdleStatus EXCEPT !.i = 1]
    /\ UNCHANGED <<run, nq, rd, fleetVars, tickVars, connVars>>

\* The serializer reads the vehicle at sq.i.
StatusVehicle ==
    /\ lpc = "sevs"
    /\ sq' = [sq EXCEPT !.evs = Append(@, EvDict(sq.i)),
                        !.i = IF sq.i < NumEVs THEN sq.i + 1 ELSE 0]
    /\ lpc' = IF sq.i < NumEVs THEN lpc ELSE "sstations"
    /\ UNCHANGED <<run, nq, rd, fleetVars, tickVars, connVars>>

\* The serializer reads the stations.
StatusStations ==
    /\ lpc = "sstations"
    /\ sq' = [sq EXCEPT !.stations = [k \in 1..NumStations |-> StationDict(k)]]
    /\ lpc' = "sreturn"
    /\ UNCHANGED <<run, nq, rd, fleetVars, tickVars, connVars>>

\* The response is sent.
StatusReturn ==
    /\ lpc = "sreturn"
    /\ lpc' = "idle"
    /\ sq' = IdleStatus
    /\ UNCHANGED <<run, nq, rd, fleetVars, tickVars, connVars>>

Status == StatusStart \/ StatusVehicle \/ StatusStations \/ StatusReturn

\* ----------------------------------------------- main.ConnectionManager
Range(seq) == {seq[k] : k \in 1..Len(seq)}

\* list.remove: the first occurrence is taken out.
RECURSIVE RemoveFirst(_, _)
RemoveFirst(seq, c) ==
    IF seq = <<>> THEN <<>>
    ELSE IF Head(seq) = c THEN Tail(seq)
    ELSE <<Head(seq)>> \o RemoveFirst(Tail(seq), c)

\* Lines 145-149 and 56-58: a client opens /ws/fleet; its websocket is
\* accepted and appended.  A websocket object registers once; the endpoint
\* then only sleeps (lines 151-153), so disconnect (lines 60-62) is not
\* reached from it.
Connect ==
    /\ \E o \in Observers :
         /\ o \notin Range(active_connections) \cup Range(bsnap) \cup failed
         /\ active_connections' = Append(active_connections, o)
         /\ joined' = IF bpc # "idle" THEN joined \cup {o} ELSE joined
    /\ UNCHANGED <<bpc, bsnap, bi, inbox, failed, fleetVars, tickVars, loopVars>>

\* The mutant of Iterated: the loop runs over the registry itself.
IteratedLive == active_connections

\* Line 66: the loop runs over list(self.active_connections), the copy taken
\* when the broadcast starts.
Iterated == bsnap

\* Lines 64-66: broadcast(message) is called.
BroadcastStart ==
    /\ bpc = "idle"
    /\ bsnap' = active_connections
    /\ bi' = 1
    /\ inbox' = [o \in Observers |-> 0]
    /\ failed' = {}
    /\ joined' = {}
    /\ bpc' = IF active_connections = <<>> THEN "done" ELSE "send"
    /\ UNCHANGED <<active_connections, fleetVars, tickVars, loopVars>>

\* Lines 67-74 for the connection at bi: send_text delivers the message, or
\* raises and the connection is removed (a ValueError of remove is passed).
BroadcastSend ==
    /\ bpc = "send"
    /\ UNCHANGED <<bsnap, joined, fleetVars, tickVars, loopVars>>
    /\ LET c == Iterated[bi]
       IN \/ /\ inbox' = [inbox EXCEPT ![c] = @ + 1]
             /\ UNCHANGED <<active_connections, failed>>
          \/ /\ failed' = failed \cup {c}
             /\ active_connections' = RemoveFirst(active_connections, c)
             /\ UNCHANGED inbox
    /\ bi' = bi + 1
    /\ bpc' = IF bi + 1 > Len(Iterated') THEN "done" ELSE "send"

\* The broadcast coroutine returns.
BroadcastDone ==
    /\ bpc = "done"
    /\ bpc' = "idle"
    /\ bi' = 0
    /\ UNCHANGED <<active_connections, bsnap, inbox, failed, joined>>
    /\ UNCHANGED <<fleetVars, tickVars, loopVars>>

Broadcast == BroadcastStart \/ BroadcastSend \/ BroadcastDone

Tick == TickStart \/ TickMove \/ TickDrain \/ TickReset \/ TickClear \/ Handover

Next == Tick \/ Assign

Spec == Init /\ [][Next]_vars

\* The timer's thread beside the nearby-stations query.
NextQuery == Tick \/ Nearby

SpecQuery == InitQuery /\ [][NextQuery]_vars

\* The timer's thread beside the observers' registrations.
NextPush == Tick \/ Connect

SpecPush == InitQuery /\ [][NextPush]_vars

\* The timer's thread beside calls of real_distance.
NextResolve == Tick \/ Resolve

SpecResolve == InitQuery /\ [][NextResolve]_vars

\* The timer's thread beside the status query.
NextStatus == Tick \/ Status

SpecStatus == InitQuery /\ [][NextStatus]_vars

\* ConnectionManager.broadcast called over the registry, registrations
\* arriving while it awaits a send.
NextBroadcast == Connect \/ Broadcast

SpecBroadcast == InitQuery /\ [][NextBroadcast]_vars

\* The timer's thread beside registrations and broadcasts, the interval
\* trigger firing the job again and again (lines 98-100) and the job's thread
\* never starved.
NextLive == Tick \/ Connect \/ Broadcast

SpecLive == InitQuery /\ [][NextLive]_vars /\ WF_vars(Tick)

\* ------------------------------------------------------------------ claims
RECURSIVE SumCapacity(_)
SumCapacity(n) == IF n = 0 THEN 0 ELSE capacity[n] + SumCapacity(n - 1)
TotalCapacity == SumCapacity(NumStations)
AllFull == \A s \in Stations : occupied[s] = capacity[s]
Records == run.assignments
InRun == lpc \in {"scan", "choose", "return"}

Fleet == <<battery, lat, lon, assigned_station, capacity, occupied>>
Result == nq.result

\* C1: every station's occupied count is between 0 and its capacity in every
\* reachable state: after every assignment run, and in every state between
\* the resets and increments of a run and the steps of a tick.
C1_OccupiedWithinCapacity ==
    \A s \in Stations : 0 <= occupied[s] /\ occupied[s] <= capacity[s]

\* A run has finished after a tick, with a station filled to its capacity.
C1_Witness ==
    /\ lpc = "return"
    /\ ticks > 0
    /\ \E s \in Stations : occupied[s] = capacity[s] /\ capacity[s] = MaxCap

\* C2, step by step: the decrement lowers the battery by 0, 1 or 2 and stops
\* at 0; when the tick's loop ends every battery is within [0, 100] and every
\* vehicle whose battery was 0 after its decrement has battery 100 and no
\* assigned station.
C2_TickStep ==
    /\ (tpc = "drain" /\ tpc' = "reset") =>
           battery'[ti] \in {Max(0, battery[ti] - d) : d \in 0..MaxDrain}
    /\ (tpc # "handover" /\ tpc' = "handover") =>
           /\ \A e \in EVs : 0 <= battery'[e] /\ battery'[e] <= FullBattery
           /\ \A e \in depleted' :
                battery'[e] = FullBattery /\ assigned_station'[e] = None

\* C2: after every completed tick every battery is within [0, 100]; a tick
\* lowers a battery by 0, 1 or 2, clamped at 0; and a vehicle whose battery was
\* 0 after the decrement ends the tick with battery 100 and assigned_station
\* cleared.
C2_TickEndsResetAndCleared == [][C2_TickStep]_vars

\* C3: when a broadcast over the registered observers is done, every observer
\* of it whose send did not fail has received the message exactly once, and
\* of those observers exactly the ones whose send succeeded are registered;
\* with no registration during the broadcast the registry is exactly they, in
\* order.  Before that, the broadcast goes on whatever the sends did.
C3_BroadcastResilient ==
    /\ bpc = "send" => bi <= Len(bsnap) /\ ENABLED BroadcastSend
    /\ bpc = "done" =>
        /\ \A o \in Range(bsnap) \ failed : inbox[o] = 1
        /\ \A o \in Range(bsnap) : o \in Range(active_connections) <=> o \notin failed
        /\ joined = {} =>
              active_connections = SelectSeq(bsnap, LAMBDA o : o \notin failed)

\* A broadcast over three observers is done: the first send failed, the other
\* two delivered.
C3_Witness ==
    /\ bpc = "done"
    /\ Len(bsnap) = 3
    /\ failed = {bsnap[1]}
    /\ inbox[bsnap[2]] = 1 /\ inbox[bsnap[3]] = 1

\* C4: with an observer registered, every broadcast task the timer's job has
\* handed over is on the loop that serves the observers.
C4_TaskOnServingLoop ==
    active_connections # <<>> => \A l \in Loops \ {ServerLoop} : pending[l] = 0

\* C5, the order: the step that sorts yields every vehicle once, ascending by
\* the battery read at that step, equal batteries in fleet order.
C5_SortStep ==
    (lpc = "sort" /\ lpc' = "scan") =>
        LET order == run'.evs_sorted
        IN /\ Len(order) = NumEVs
           /\ {order[k] : k \in 1..NumEVs} = EVs
           /\ \A a, b \in 1..NumEVs :
                a < b => \/ battery[order[a]] < battery[order[b]]
                         \/ battery[order[a]] = battery[order[b]] /\ order[a] < order[b]

\* C5, the service: the records name the first vehicles of that order, in
\* that order, so no vehicle is recorded while one before it is left out.
C5_RecordsArePrefix ==
    InRun =>
        /\ Len(Records) <= NumEVs
        /\ \A k \in 1..Len(Records) : Records[k].ev = EvId(run.evs_sorted[k])

\* C5: in one assignment run vehicles are served in ascending order of the
\* battery read when the run starts, ties in fleet order; the records are in
\* that order and a vehicle is never left out while a later one is recorded.
C5_ServedByAscendingBattery == [][C5_SortStep]_vars /\ []C5_RecordsArePrefix

\* A finished run that served vehicle 2 before vehicle 1 and left a vehicle out.
C5_Witness ==
    /\ lpc = "return"
    /\ run.evs_sorted[1] # 1
    /\ Len(Records) \in 1..(NumEVs - 1)

\* C6: a finished run returns exactly min(V, C) records, no vehicle in two of
\* them and no station in more records than its capacity.
C6_RecordCount ==
    lpc = "return" =>
        /\ Len(Records) = Min(NumEVs, TotalCapacity)
        /\ \A a, b \in 1..Len(Records) : Records[a].ev = Records[b].ev => a = b
        /\ \A s \in Stations :
             Cardinality({k \in 1..Len(Records) : Records[k].station = StationId(s)})
                 <= capacity[s]

\* A finished run over more vehicles than chargers.
C6_Witness ==
    /\ lpc = "return"
    /\ TotalCapacity < NumEVs
    /\ Len(Records) = TotalCapacity

\* C7: while the run handles a vehicle with every station full, its steps
\* add no record, leave the vehicle's assigned_station and every occupied
\* counter as they are, and the run goes on to the next vehicle or returns.
C7_SkipStep ==
    (lpc \in {"scan", "choose"} /\ AllFull /\ run' # run) =>
        /\ run'.assignments = run.assignments
        /\ assigned_station' = assigned_station
        /\ occupied' = occupied
        /\ lpc' \in {"scan", "choose", "return"}
        /\ lpc = "choose" => run'.i = run.i + 1

C7_FullStationsSkipVehicle == [][C7_SkipStep]_vars

\* A vehicle that holds a station from an earlier run is about to be passed over.
C7_Witness ==
    /\ lpc = "choose"
    /\ AllFull
    /\ run.best_station = None
    /\ assigned_station[run.evs_sorted[run.i]] # None

\* C8, the value: whatever the two remote tiers answer and whether or not the
\* credential is set, real_distance returns a distance and no exception
\* leaves it.
C8_AlwaysADistance ==
    \A e \in EVs, s \in Stations, o1 \in Outcomes, o2 \in Outcomes :
        LET r == RealDistance(e, s, o1, o2)
        IN ~r.raised /\ r.dist \in Nat

\* C8, the frame: a step that calls real_distance changes no vehicle or
\* station field.
C8_CallStep == nq'.calls > nq.calls => Fleet' = Fleet

\* C8: real_distance returns a distance and raises nothing for every
\* combination of tier outcomes, credential present or absent, and changes no
\* vehicle or station field.
C8_ResolverNeverFails == []C8_AlwaysADistance /\ [][C8_CallStep]_vars

\* A query has called the resolver without the credential, after a tick moved
\* the vehicle.
C8_Witness ==
    /\ ~orsKey
    /\ nq.calls > 0
    /\ ticks > 0
    /\ lat[nq.ev] # InitLat[nq.ev]

\* C9: for a known vehicle the response lists every station exactly once,
\* each reported distance_m no larger than the next.
C9_NearbyAscending ==
    (lpc = "nreturn" /\ nq.ev # None) =>
        /\ Len(Result) = NumStations
        /\ {Result[k].station : k \in 1..Len(Result)} = {StationId(s) : s \in Stations}
        /\ \A k \in 1..(Len(Result) - 1) : Result[k].distance_m <= Result[k + 1].distance_m

\* C10, the response: a query for an identifier no vehicle carries returns
\* the not-found error, has called the resolver not once, and the handler
\* can return.
C10_NotFound ==
    (lpc = "nreturn" /\ nq.id \notin {EvId(e) : e \in EVs}) =>
        /\ nq.error = "EV not found"
        /\ Result = <<>>
        /\ nq.calls = 0
        /\ ENABLED NearbyReturn

\* C10, the frame: the steps of such a query change no vehicle or station
\* field.
C10_NotFoundStep ==
    (nq' # nq /\ UnknownId \in {nq.id, nq'.id}) => Fleet' = Fleet

\* C10: a query with an unknown identifier returns the not-found error, makes
\* no resolver call, leaves the fleet state unchanged, and the server goes on.
C10_UnknownVehicle == []C10_NotFound /\ [][C10_NotFoundStep]_vars

\* The not-found response is about to be returned, after a tick.
C10_Witness ==
    /\ lpc = "nreturn"
    /\ nq.id = UnknownId
    /\ ticks > 0

\* C11: in every reachable state, whatever ticks and assignment runs came
\* before, each vehicle's assigned_station is None or the identifier of a
\* station of the fleet.
C11_AssignedStationExists ==
    \A e \in EVs : assigned_station[e] = None \/ assigned_station[e] \in StationIds

\* A run has returned after a tick: one vehicle holds the last station, and a
\* vehicle the tick reset holds none.
C11_Witness ==
    /\ lpc = "return"
    /\ \E e \in EVs : assigned_station[e] = StationId(NumStations)
    /\ \E e \in depleted : assigned_station[e] = None /\ battery[e] = FullBattery

\* C12: a snapshot returned by the status query shows the vehicles as some
\* number k of completed ticks left them: once the tick in progress has ended,
\* every vehicle of the snapshot carries the position and battery it had
\* after the same k ticks.
C12_SnapshotIsOneTick ==
    (lpc = "sreturn" /\ tpc = "idle") =>
        \E k \in 1..Len(completed) :
            \A e \in EVs :
                /\ sq.evs[e].battery = completed[k].battery[e]
                /\ sq.evs[e].lat = completed[k].lat[e]
                /\ sq.evs[e].lon = completed[k].lon[e]

\* C13, step by step: a request starts its resets only when no run is in
\* progress, and while a run is in progress a counter changes only by that
\* run's own reset of the station it is at or its own increment of the
\* station it chose.
C13_Step ==
    LET RunInProgress == lpc \in {"reset", "sort", "scan", "choose"}
        Starts == lpc' = "reset" /\ run' = [IdleRun EXCEPT !.j = 1] /\ run' # run
    IN /\ Starts => ~RunInProgress
       /\ (RunInProgress /\ occupied' # occupied) =>
              \/ /\ lpc = "reset"
                 /\ occupied' = [occupied EXCEPT ![run.j] = 0]
                 /\ run'.j \in {run.j + 1, 0}
              \/ /\ lpc = "choose"
                 /\ occupied' = [occupied EXCEPT ![run.best_station] = @ + 1]
                 /\ Len(run'.assignments) = Len(run.assignments) + 1

\* C13, what a run observes: the stations it has reset read 0 until it has
\* sorted, and from then on every counter is the number of the run's own
\* records that name the station.
C13_OwnCounters ==
    /\ lpc = "reset" => \A s \in 1..(run.j - 1) : occupied[s] = 0
    /\ lpc = "sort" => \A s \in Stations : occupied[s] = 0
    /\ InRun => \A s \in Stations :
           occupied[s] = Cardinality({k \in 1..Len(Records) : Records[k].station = StationId(s)})

\* C13: two assignment requests never interleave: from a request's first
\* reset until its assign_charging call returns no other request resets or
\* increments a counter, so a run never observes a counter reset by another
\* run in progress.
C13_RunsNeverInterleave == [][C13_Step]_vars /\ []C13_OwnCounters

\* A second request is scanning, nothing recorded yet: a vehicle still holds
\* the station an earlier request gave it, and the counters read 0.
C13_Witness ==
    /\ lpc = "scan"
    /\ Records = <<>>
    /\ \E e \in EVs : assigned_station[e] # None
    /\ \A s \in Stations : occupied[s] = 0

\* C14, step by step: between the start and the end of an assignment run no
\* step changes a battery or clears an assigned_station, and at the step that
\* completes the run every vehicle named in a record holds that record's
\* station.
C14_Step ==
    /\ lpc \in {"sort", "scan", "choose"} =>
           /\ battery' = battery
           /\ \A e \in EVs : assigned_station[e] # None => assigned_station'[e] # None
    /\ (lpc # "return" /\ lpc' = "return") =>
           \A k \in 1..Len(Records') :
               \E e \in EVs : /\ EvId(e) = Records'[k].ev
                              /\ assigned_station'[e] = Records'[k].station

\* C14: a tick and an assignment run are mutually exclusive, so immediately
\* after a run completes every vehicle named in a returned record has
\* assigned_station equal to the record's station.
C14_TickExcludedFromRun == [][C14_Step]_vars

\* C15, the queries: no battery read into a status snapshot or into a
\* nearby-stations response is 0.
C15_NoZeroInResponse ==
    /\ \A k \in 1..Len(sq.evs) : sq.evs[k].battery # 0
    /\ (lpc \in {"nreport", "nreturn"} /\ nq.ev # None) => nq.battery # 0

\* C15, the run: the step that sorts the vehicles by battery reads no 0.
C15_SortStep == (lpc = "sort" /\ lpc' = "scan") => \A e \in EVs : battery[e] # 0

\* C15: no reader of the fleet (status query, nearby-stations query, an
\* assignment run sorting by battery) ever observes a vehicle with battery 0:
\* the clamp to 0 and the reset to 100 are one step to every reader.
C15_NoReaderSeesEmpty == []C15_NoZeroInResponse /\ [][C15_SortStep]_vars

C17_NearestOpen ==
    lpc = "choose" =>
        LET open == {s \in Stations : run.dists[s] # NoDist}
            best == run.best_station
        IN /\ Len(run.dists) = NumStations
           /\ \A s \in Stations : s \in open <=> occupied[s] < capacity[s]
           /\ IF open = {} THEN best = None
              ELSE /\ best \in open
                   /\ run.best_dist = run.dists[best]
                   /\ \A s \in open : run.dists[best] <= run.dists[s]
                   /\ \A s \in open : run.dists[s] = run.dists[best] => best <= s

\* C17, the assignment: the step that serves the vehicle gives it the chosen
\* station, counts it there and records it.
C17_TakeStep ==
    (lpc = "choose" /\ run.best_station # None /\ run' # run) =>
        LET ev == run.evs_sorted[run.i]
            rec == run'.assignments[Len(run'.assignments)]
        IN /\ assigned_station'[ev] = StationId(run.best_station)
           /\ occupied'[run.best_station] = occupied[run.best_station] + 1
           /\ rec.ev = EvId(ev) /\ rec.station = StationId(run.best_station)

\* C17: for each vehicle served the chosen station has occupied < capacity
\* and the least resolver distance among such stations, the earliest in
\* station order among the nearest; a station at capacity is never chosen,
\* even when it is the nearest.
C17_NearestOpenStationChosen == []C17_NearestOpen /\ [][C17_TakeStep]_vars

\* The scan of a vehicle is over: a station nearer to it than the chosen one
\* was passed over as full.
C17_Witness ==
    /\ lpc = "choose"
    /\ run.best_station # None
    /\ \E s \in Stations :
         /\ run.dists[s] = NoDist
         /\ FlatEarth(run.evs_sorted[run.i], s) < run.best_dist

\* C18: in one real_distance call the tiers are tried in the order primary,
\* secondary, flat-earth, none twice: the primary always and first, its
\* distance returned if it succeeds; the secondary only after the primary
\* failed and only with the credential set, its distance returned if it
\* succeeds; the flat-earth approximation only when the primary failed and the
\* secondary failed or was not configured.
C18_TiersInOrder ==
    LET o1 == rd.o1
        o2 == rd.o2
        r == rd.r
        t == r.tiers
        Tried(x) == \E k \in 1..Len(t) : t[k] = x
        Rank(x) == IF x = "osrm" THEN 1 ELSE IF x = "ors" THEN 2 ELSE 3
    IN rd # NoCall =>
        /\ Len(t) >= 1 /\ t[1] = "osrm"
        /\ \A k \in 1..Len(t) : t[k] \in {"osrm", "ors", "flat"}
        /\ \A a, b \in 1..Len(t) : a < b => Rank(t[a]) < Rank(t[b])
        /\ o1.kind = "ok" => t = <<"osrm">> /\ r.dist = o1.dist
        /\ Tried("ors") <=> (o1.kind # "ok" /\ orsKey)
        /\ (Tried("ors") /\ o2.kind = "ok") => t = <<"osrm", "ors">> /\ r.dist = o2.dist
        /\ Tried("flat") <=> (o1.kind # "ok" /\ (~orsKey \/ o2.kind # "ok"))

\* With the credential set, a call went through all three tiers.
C18_Witness ==
    /\ orsKey
    /\ ticks > 0
    /\ rd.r.tiers = <<"osrm", "ors", "flat">>
    /\ rd.o1.kind = "timeout" /\ rd.o2.kind = "malformed"

C20_Step ==
    LET Named(recs, s) == Cardinality({k \in 1..Len(recs) : recs[k].station = StationId(s)})
    IN /\ (lpc # "return" /\ lpc' = "return") =>
              \A s \in Stations : occupied'[s] = Named(Records', s)
       /\ (lpc = "return" /\ lpc' = "idle") =>
              \A s \in Stations : occupied'[s] = Named(Records, s)
       /\ (tpc' # tpc \/ ti' # ti) => occupied' = occupied /\ capacity' = capacity

\* C20: right after an assignment request completes every occupied counter
\* equals the number of returned records naming the station, and a tick that
\* resets a depleted vehicle and clears its assigned_station leaves occupied
\* and capacity as they are; occupied can so exceed the number of vehicles
\* assigned to the station.
C20_OccupiedOutlivesAssignment == [][C20_Step]_vars

\* No request is in progress and a tick has reset a vehicle: a station counts
\* more chargers occupied than vehicles are assigned to it.
C20_Witness ==
    /\ lpc = "idle"
    /\ \E e \in depleted : assigned_station[e] = None
    /\ \E s \in Stations :
         occupied[s] > Cardinality({e \in EVs : assigned_station[e] = StationId(s)})
====
